---- MODULE Spec2Model ----
(***************************************************************************)
(* Model of streamlit_app.py: the patient-evolution dashboard.  One script *)
(* run (Streamlit reruns the whole script on every interaction) is the     *)
(* operator ScriptRun; every user interaction is one action that changes   *)
(* the widget state and then reruns the script.                            *)
(*                                                                         *)
(* Text that the code inspects character by character (the display label,  *)
(* the 'Identificación' cell, the regular expression) is a sequence of     *)
(* code points; text that is only compared for equality (periods, column   *)
(* names, descriptions) is a TLA+ string.                                  *)
(***************************************************************************)
EXTENDS Integers, Sequences, FiniteSets, TLC

VARIABLES
    sheet,                   \* the spreadsheet behind sheet.get_all_records()
    df,                      \* the DataFrame load_data() returned (rows, columns)
    data_loaded_successfully,
    selected_patient_label,  \* st.selectbox of step 1: None or Some(label)
    fecha_evolutiva,         \* st.selectbox of step 2, col1: None or Some(period)
    fecha_comparativa,       \* st.selectbox of step 2, col2: None or Some(period)
    button,                  \* what st.button("Analizar Progreso") returned in this run
    out,                     \* what this script run computed and rendered
    difference,              \* argument of a direct call of get_analysis_description
    description,             \* its return value (None before the call)
    matching                 \* the bucket conditions of lines 32-51 the argument satisfies

vars == <<sheet, df, data_loaded_successfully, selected_patient_label,
          fecha_evolutiva, fecha_comparativa, button, out,
          difference, description, matching>>

uiVars == <<sheet, df, data_loaded_successfully, selected_patient_label,
            fecha_evolutiva, fecha_comparativa, button, out>>

-----------------------------------------------------------------------------
(* Python values *)

None == <<>>
Some(x) == <<x>>
Get(o) == o[1]

PyInt(n) == [t |-> "int", i |-> n]
PyStr(s) == [t |-> "str", s |-> s]
\* pd.NA, the missing value of an Int64 column
pd_NA == [t |-> "NA"]

isna(v) == v = pd_NA
notna(v) == v # pd_NA

\* Python truthiness of an optional string (None and "" are falsy)
Truthy(o) == o # None /\ Get(o) # ""

-----------------------------------------------------------------------------
(* Bounds of the model *)

\* rows of the spreadsheet
MaxRows == 3
\* direct calls of get_analysis_description take -MaxDelta .. MaxDelta
MaxDelta == 110

-----------------------------------------------------------------------------
(* get_analysis_description, lines 15-53 *)

DESC_NA == "No aplica. El paciente no fue evaluado por razones clínicas o porque ese ítem no está siendo trabajado."
DESC_UNPARSED == "No se pudo interpretar la diferencia."
DESC_NEGATIVE == "No presenta aumento. No se ha observado progreso en ese aspecto evaluado."
DESC_ZERO == "No presenta aumento. No se ha observado progreso en ese aspecto evaluado."
DESC_FALLBACK == "Progreso positivo no categorizado."

\* The 20 bucket conditions lo <= diff_val <= hi, bounds in tenths (0.5 is 5,
\* 5.9 is 59, 6 is 60), in the order the code tests them.
BUCKETS == <<
    [lo |->   5, hi |->   59, desc |-> "Leve mejoría, apenas perceptible."],
    [lo |->  60, hi |->  109, desc |-> "Mejora ligera, posiblemente inicial o marginal."],
    [lo |-> 110, hi |->  159, desc |-> "Mejora leve pero ya observable."],
    [lo |-> 160, hi |->  209, desc |-> "Progreso clínicamente moderado."],
    [lo |-> 210, hi |->  259, desc |-> "Mejora establecida, aunque todavía moderada."],
    [lo |-> 260, hi |->  309, desc |-> "Progreso consistente y significativo."],
    [lo |-> 310, hi |->  359, desc |-> "Mejora marcada, buen avance terapéutico."],
    [lo |-> 360, hi |->  409, desc |-> "Progreso importante."],
    [lo |-> 410, hi |->  459, desc |-> "Avance clínicamente sólido."],
    [lo |-> 460, hi |->  509, desc |-> "Mejora significativa, cercana a la mitad del máximo esperado."],
    [lo |-> 510, hi |->  559, desc |-> "Ya se supera la mitad del potencial de mejora."],
    [lo |-> 560, hi |->  609, desc |-> "Mejora clara y continua."],
    [lo |-> 610, hi |->  659, desc |-> "Alto nivel de progreso."],
    [lo |-> 660, hi |->  709, desc |-> "Progreso muy destacado."],
    [lo |-> 710, hi |->  759, desc |-> "El paciente se acerca al máximo de mejora posible."],
    [lo |-> 760, hi |->  809, desc |-> "Gran mejora, resultado clínicamente excelente."],
    [lo |-> 810, hi |->  859, desc |-> "Alta recuperación o efectividad del tratamiento."],
    [lo |-> 860, hi |->  909, desc |-> "Nivel casi óptimo."],
    [lo |-> 910, hi |->  959, desc |-> "Progreso casi completo."],
    [lo |-> 960, hi |-> 1000, desc |-> "Mejora máxima alcanzada según los ítems evaluados."] >>

\* float(difference) of an int, in tenths
float_tenths(n) == n * 10

\* the bucket conditions with the lower bounds read as exclusive
BucketsMatching_exclusive(diff_val) ==
    {k \in DOMAIN BUCKETS : BUCKETS[k].lo < diff_val /\ diff_val <= BUCKETS[k].hi}

\* the bucket conditions of lines 32-51 that diff_val (in tenths) satisfies
BucketsMatching(diff_val) ==
    {k \in DOMAIN BUCKETS : BUCKETS[k].lo <= diff_val /\ diff_val <= BUCKETS[k].hi}

\* the chain of ifs returns at the first condition that holds
FirstBucket(diff_val) ==
    CHOOSE k \in BucketsMatching(diff_val) :
        \A j \in BucketsMatching(diff_val) : k <= j

get_analysis_description(d) ==
    IF d = PyStr("N/A") \/ d = PyStr("Error") THEN DESC_NA
    ELSE IF d.t # "int" THEN DESC_UNPARSED
    ELSE LET diff_val == float_tenths(d.i) IN
         IF diff_val < 0 THEN DESC_NEGATIVE
         ELSE IF diff_val = 0 THEN DESC_ZERO
         ELSE IF BucketsMatching(diff_val) # {} THEN BUCKETS[FirstBucket(diff_val)].desc
         ELSE DESC_FALLBACK

-----------------------------------------------------------------------------
(* Text as code points *)

CH == [space |-> 32, lparen |-> 40, rparen |-> 41, zero |-> 48, nine |-> 57]

\* \d of the pattern
IsDigit(c) == CH.zero <= c /\ c <= CH.nine

RECURSIVE lstrip(_)
lstrip(s) == IF s # <<>> /\ Head(s) = CH.space THEN lstrip(Tail(s)) ELSE s

RECURSIVE rstrip(_)
rstrip(s) ==
    IF s # <<>> /\ s[Len(s)] = CH.space THEN rstrip(SubSeq(s, 1, Len(s) - 1)) ELSE s

\* str.strip()
strip(s) == rstrip(lstrip(s))

\* Python's order of str: by code point, a proper prefix first
RECURSIVE StrLess(_, _)
StrLess(a, b) ==
    IF b = <<>> THEN FALSE
    ELSE IF a = <<>> THEN TRUE
    ELSE IF Head(a) # Head(b) THEN Head(a) < Head(b)
    ELSE StrLess(Tail(a), Tail(b))

\* sorted(list of str)
sorted(labels) == SortSeq(labels, StrLess)

Range(s) == {s[k] : k \in DOMAIN s}

\* the elements of s in order of first appearance (drop_duplicates, unique)
RECURSIVE Unique(_)
Unique(s) ==
    IF s = <<>> THEN <<>>
    ELSE LET front == SubSeq(s, 1, Len(s) - 1)
             last == s[Len(s)]
         IN IF last \in Range(front) THEN Unique(front)
            ELSE Append(Unique(front), last)

-----------------------------------------------------------------------------
(* The spreadsheet *)

\* ('Nombre Paciente', 'Identificación') cells: ("B", "1"), ("A (1)", "2 "),
\* ("B", "2 ") and, with an id that is not a number, ("B", "A1")
PatientB1 == [Nombre |-> <<66>>, Identificacion |-> <<49>>]
PatientBA1 == [Nombre |-> <<66>>, Identificacion |-> <<65, 49>>]
Patients == {
    PatientB1,
    [Nombre |-> <<65, 32, 40, 49, 41>>, Identificacion |-> <<50, 32>>],
    [Nombre |-> <<66>>, Identificacion |-> <<50, 32>>] }
\* 'Periodo' cells; an empty cell reads as ""
Periods == {"", "2024-01", "2024-06"}

SALTO == "Salto en un pie."
TREPA == "Trepa."
OBSERVACIONES == "Observaciones"

\* the cells of the data columns of one row: an integer score, an empty cell
\* or a text cell (the 'URL_PDF' cell, which line 136 only prints, is left out)
ScoreProfiles == {
    [c \in {SALTO, TREPA, OBSERVACIONES} |->
        CASE c = SALTO -> PyInt(40) [] c = TREPA -> PyStr("") [] OTHER -> PyStr("ok")],
    [c \in {SALTO, TREPA, OBSERVACIONES} |->
        CASE c = SALTO -> PyInt(62) [] c = TREPA -> PyInt(40) [] OTHER -> PyStr("")] }

\* the data columns of the sheet, in sheet order
ColumnOrders == { <<TREPA, OBSERVACIONES, SALTO>>, <<SALTO, TREPA>>, <<OBSERVACIONES>> }

RowsOver(patients, periods, profiles, cols) ==
    { [Nombre |-> q.Nombre, Identificacion |-> q.Identificacion, Periodo |-> p,
       scores |-> [c \in Range(cols) |-> prof[c]]] :
        q \in patients, p \in periods, prof \in profiles }

SheetsOver(rows, cols) ==
    { [columns |-> cols, rows |-> rs] :
        rs \in UNION { [1..n -> rows] : n \in 0..MaxRows } }

Profile40 == CHOOSE prof \in ScoreProfiles : prof[SALTO] = PyInt(40)

\* Four families of sheets: several patients with dated periods and one score
\* profile; one patient with every score profile under every column order;
\* one patient with an empty 'Periodo' cell; one patient whose id is not a number.
Sheets ==
    SheetsOver(RowsOver(Patients, Periods \ {""}, {Profile40}, <<SALTO>>), <<SALTO>>)
    \cup UNION { SheetsOver(RowsOver({PatientB1}, Periods \ {""}, ScoreProfiles, cols), cols) :
                    cols \in ColumnOrders }
    \cup SheetsOver(RowsOver({PatientB1}, {"", "2024-01"}, {Profile40}, <<SALTO>>), <<SALTO>>)
    \cup SheetsOver(RowsOver({PatientBA1}, {"2024-01"}, {Profile40}, <<SALTO>>), <<SALTO>>)

-----------------------------------------------------------------------------
(* load_data, lines 66-76 *)

EmptyDataFrame == [columns |-> <<>>, rows |-> <<>>]

\* pd.to_numeric(errors='coerce').astype('Int64') of one cell
to_Int64(v) == IF v.t = "int" THEN v ELSE pd_NA

load_row(r) ==
    [Nombre |-> r.Nombre,
     Identificacion |-> strip(r.Identificacion),
     Periodo |-> r.Periodo,
     scores |-> [c \in DOMAIN r.scores |-> to_Int64(r.scores[c])]]

load_data(sh) ==
    IF sh.rows = <<>> THEN EmptyDataFrame
    ELSE [columns |-> sh.columns, rows |-> [k \in DOMAIN sh.rows |-> load_row(sh.rows[k])]]

-----------------------------------------------------------------------------
(* The script body, lines 90-216 *)

\* line 93: name + " (" + id + ")"
display_label(name, id) == name \o <<CH.space, CH.lparen>> \o id \o <<CH.rparen>>

\* lines 92-93: the distinct (name, id) pairs in order of first appearance
\* (no cell is NaN: a name is a str and the id went through astype(str))
unique_patients_df(d) ==
    LET pairs == Unique([k \in DOMAIN d.rows |->
                     [Nombre |-> d.rows[k].Nombre,
                      Identificacion |-> d.rows[k].Identificacion]])
    IN [k \in DOMAIN pairs |->
           [Nombre |-> pairs[k].Nombre, Identificacion |-> pairs[k].Identificacion,
            display_label |-> display_label(pairs[k].Nombre, pairs[k].Identificacion)]]

\* the labels left in row order
patient_options_unsorted(d) ==
    [k \in DOMAIN unique_patients_df(d) |-> unique_patients_df(d)[k].display_label]

\* line 94
patient_options(d) ==
    sorted([k \in DOMAIN unique_patients_df(d) |-> unique_patients_df(d)[k].display_label])

\* the lengths k for which \((\d+)\) matches s at position i with a group of k digits
MatchAt(s, i) ==
    { k \in 1..Len(s) :
        /\ i + k + 1 <= Len(s)
        /\ s[i] = CH.lparen
        /\ \A j \in 1..k : IsDigit(s[i + j])
        /\ s[i + k + 1] = CH.rparen }

\* line 105-107: re.search(r'\((\d+)\)', s), then match.group(1); the leftmost match
re_search(s) ==
    LET starts == { i \in 1..Len(s) : MatchAt(s, i) # {} }
    IN IF starts = {} THEN None
       ELSE LET i == CHOOSE i0 \in starts : \A j \in starts : i0 <= j
                k == CHOOSE k0 \in MatchAt(s, i) : TRUE
            IN Some(SubSeq(s, i + 1, i + k))

\* the records of every patient
patient_records_unfiltered(d, selected_id_str) == d.rows

\* line 108
patient_records(d, selected_id_str) ==
    SelectSeq(d.rows, LAMBDA r : r.Identificacion = selected_id_str)

\* line 109
patient_name(d, label) ==
    SelectSeq(unique_patients_df(d), LAMBDA u : u.display_label = label)[1].Nombre

\* line 114
available_periods(records) == Unique([k \in DOMAIN records |-> records[k].Periodo])

\* lines 128-129: records[records['Periodo'] == fecha].iloc[0]
record_of(records, fecha) == SelectSeq(records, LAMBDA r : r.Periodo = fecha)[1]

\* lines 141-174
orden_columnas_deseado == <<
    "Realiza levantamiento de pelota de 1.5 kg",
    "Realiza levantamiento de pelota de 2.0 kg",
    "Realiza levantamiento de pelota de 3.0 kg",
    "Realiza levantamiento de mas de 3.0 kg",
    "Levanta y mantiene por 10 segundos.",
    "Levanta y mantiene por mas de 10 segundos",
    "Levanta, mantiene y se desplaza.",
    "Presenta adecuada coordinacion visomanual",
    "Presenta adecuada coordinacion visopedica",
    "Realiza traslado sobre barra de equilibrio",
    "Se sostiene en balancin en un solo pie",
    "Se sostiene en balancin con 2 pies por 10 segundos",
    "Se sostiene en balancin con 2 pies por 20 segundos.",
    "Se sostiene en balancin con 2 pies por 30 segundos.",
    "Salto en dos pies.",
    "Salto en un pie.",
    "Realiza arrastre.",
    "Realiza rollos.",
    "Realiza rolados.",
    "Realiza carrera.",
    "Trepa.",
    "Lanza pelota con ambas manos.",
    "Lanza pelota con la mano derecha",
    "Lanza pelota con la mano izquierda.",
    "Atrapa pelotas.",
    "Empuja.",
    "Patea.",
    "Hala.",
    "Alcanza.",
    "Levanta desde el piso.",
    "Planea, inicia y ejecuta actividades motoras.",
    "Busca estrategias para dar solucion a problemas motores." >>

\* the items in the order of the sheet's columns
columnas_analisis_sheet_order(d) ==
    SelectSeq(d.columns, LAMBDA col : col \in Range(orden_columnas_deseado))

\* line 176
columnas_analisis(d) ==
    SelectSeq(orden_columnas_deseado, LAMBDA col : col \in Range(d.columns))

\* lines 182-183: "N/A" if pd.isna(val) else int(val)
display_value(val) == IF isna(val) THEN PyStr("N/A") ELSE val

\* a missing value counted as 0
diferencia_fillna(val_comp, val_evol) ==
    PyInt((IF isna(val_evol) THEN 0 ELSE val_evol.i)
          - (IF isna(val_comp) THEN 0 ELSE val_comp.i))

\* baseline minus follow-up
diferencia_reversed(val_comp, val_evol) ==
    IF notna(val_comp) /\ notna(val_evol)
    THEN PyInt(val_comp.i - val_evol.i)
    ELSE PyStr("N/A")

\* lines 185-190; int() of an Int64 cell never raises, so "Error" is never assigned
diferencia(val_comp, val_evol) ==
    IF notna(val_comp) /\ notna(val_evol)
    THEN PyInt(val_evol.i - val_comp.i)
    ELSE PyStr("N/A")

\* lines 179-201: one pass of the loop.  The two value fields stand for the keys
\* f"Valor ({fecha_evolutiva})" and f"Valor ({fecha_comparativa})".
diff_entry(col, record_comp, record_evol) ==
    LET val_comp == record_comp.scores[col]
        val_evol == record_evol.scores[col]
    IN [Etiqueta |-> col,
        display_evol |-> display_value(val_evol),
        display_comp |-> display_value(val_comp),
        diferencia |-> diferencia(val_comp, val_evol),
        analisis |-> get_analysis_description(diferencia(val_comp, val_evol))]

\* lines 138, 178-201
resultados(d, record_comp, record_evol) ==
    [k \in DOMAIN columnas_analisis(d) |->
        diff_entry(columnas_analisis(d)[k], record_comp, record_evol)]

\* enabled as soon as one period is chosen
button_disabled_or(comp, evol) == ~(Truthy(comp) \/ Truthy(evol))

\* line 124: disabled=not (fecha_comparativa and fecha_evolutiva)
button_disabled(comp, evol) == ~(Truthy(comp) /\ Truthy(evol))

\* the test of line 125 inverted
identical_periods_inverted(comp, evol) == comp # evol

\* line 125
identical_periods(comp, evol) == comp = evol

\* a run that rendered nothing below the title
Blank ==
    [rendered |-> {}, patient_options |-> <<>>, selected_id_str |-> None,
     patient_name |-> None, patient_records |-> <<>>, available_periods |-> <<>>,
     button_disabled |-> TRUE, record_comp |-> None, record_evol |-> None,
     resultados |-> <<>>, table |-> <<>>]

\* lines 124-212: the body of  if st.button(...)
Analizar(d, o, comp, evol) ==
    IF identical_periods(comp, evol)
    THEN [o EXCEPT !.rendered = @ \cup {"warning"}]
    ELSE LET rc == record_of(o.patient_records, Get(comp))
             re == record_of(o.patient_records, Get(evol))
             res == resultados(d, rc, re)
         IN [o EXCEPT !.rendered = @ \cup {"subheader", "write"}
                                     \cup (IF res # <<>> THEN {"table"} ELSE {}),
                      !.record_comp = Some(rc),
                      !.record_evol = Some(re),
                      !.resultados = res,
                      !.table = IF res # <<>> THEN res ELSE <<>>]

\* lines 104-214: the body of  if selected_patient_label
PatientSelected(d, o, label, evol, comp, pressed) ==
    LET match == re_search(label) IN
    IF match = None THEN o
    ELSE LET records == patient_records(d, Get(match))
             o2 == [o EXCEPT !.rendered = @ \cup {"success", "header2", "header3"},
                             !.selected_id_str = match,
                             !.patient_records = records,
                             !.patient_name = Some(patient_name(d, label)),
                             !.available_periods = available_periods(records),
                             !.button_disabled = button_disabled(comp, evol)]
         IN IF pressed THEN Analizar(d, o2, comp, evol) ELSE o2

\* lines 87-216: what one run of the script computes and renders, given the
\* loaded data and the widget values of the run
ScriptRun(d, loaded, label, evol, comp, pressed) ==
    IF ~loaded THEN [Blank EXCEPT !.rendered = {"info"}]
    ELSE LET o == [Blank EXCEPT !.rendered = {"header1"},
                                !.patient_options = patient_options(d)]
         IN IF label # None
            THEN PatientSelected(d, o, Get(label), evol, comp, pressed)
            ELSE o

-----------------------------------------------------------------------------
(* Script runs *)

\* lines 56-83 at the start of a session: load_data() returns, or the
\* connection raises and the except branch leaves data_loaded_successfully False
Session(raises) ==
    /\ sheet' = sheet
    /\ df' = IF raises THEN EmptyDataFrame ELSE load_data(sheet)
    /\ data_loaded_successfully' = (~raises /\ load_data(sheet).rows # <<>>)
    /\ selected_patient_label' = None
    /\ fecha_evolutiva' = None
    /\ fecha_comparativa' = None
    /\ button' = FALSE
    /\ out' = ScriptRun(df', data_loaded_successfully', None, None, None, FALSE)

\* a rerun of the script within a session whose data is loaded (cached)
Rerun(label, evol, comp, pressed) ==
    /\ selected_patient_label' = label
    /\ fecha_evolutiva' = evol
    /\ fecha_comparativa' = comp
    /\ button' = pressed
    /\ out' = ScriptRun(df, TRUE, label, evol, comp, pressed)
    /\ UNCHANGED <<sheet, df, data_loaded_successfully>>

Idle == difference = None /\ description = None /\ matching = {}

Init ==
    /\ sheet \in Sheets
    /\ \E raises \in BOOLEAN :
        /\ df = IF raises THEN EmptyDataFrame ELSE load_data(sheet)
        /\ data_loaded_successfully = (~raises /\ load_data(sheet).rows # <<>>)
    /\ selected_patient_label = None
    /\ fecha_evolutiva = None
    /\ fecha_comparativa = None
    /\ button = FALSE
    /\ out = ScriptRun(df, data_loaded_successfully, None, None, None, FALSE)
    /\ Idle

\* The page is opened again: a new session, whose load succeeds or raises.
Reload ==
    /\ \E raises \in BOOLEAN : Session(raises)
    /\ UNCHANGED <<difference, description, matching>>

\* what a step-2 selectbox holds after the patient changed: its value survives
\* only if it is still one of its options; the framework may also reset it
Carried(value, label) ==
    {None} \cup
    { v \in {value} :
        /\ v # None
        /\ label # None
        /\ re_search(Get(label)) # None
        /\ Get(v) \in Range(available_periods(
                         patient_records(df, Get(re_search(Get(label)))))) }

\* lines 97-102: the user picks an option of the patient selectbox, or clears it
SelectPatient ==
    /\ data_loaded_successfully
    /\ \E label \in {None} \cup {Some(l) : l \in Range(out.patient_options)} :
        /\ label # selected_patient_label
        /\ \E evol \in Carried(fecha_evolutiva, label),
              comp \in Carried(fecha_comparativa, label) :
            Rerun(label, evol, comp, FALSE)
    /\ UNCHANGED <<difference, description, matching>>

\* line 119
SelectFechaEvolutiva ==
    /\ "header2" \in out.rendered
    /\ \E evol \in {None} \cup {Some(p) : p \in Range(out.available_periods)} :
        /\ evol # fecha_evolutiva
        /\ Rerun(selected_patient_label, evol, fecha_comparativa, FALSE)
    /\ UNCHANGED <<difference, description, matching>>

\* line 121
SelectFechaComparativa ==
    /\ "header2" \in out.rendered
    /\ \E comp \in {None} \cup {Some(p) : p \in Range(out.available_periods)} :
        /\ comp # fecha_comparativa
        /\ Rerun(selected_patient_label, fecha_evolutiva, comp, FALSE)
    /\ UNCHANGED <<difference, description, matching>>

\* line 124: the user clicks "Analizar Progreso", which a disabled button ignores
PressAnalizar ==
    /\ "header3" \in out.rendered
    /\ ~out.button_disabled
    /\ Rerun(selected_patient_label, fecha_evolutiva, fecha_comparativa, TRUE)
    /\ UNCHANGED <<difference, description, matching>>

Next ==
    \/ Reload
    \/ SelectPatient
    \/ SelectFechaEvolutiva
    \/ SelectFechaComparativa
    \/ PressAnalizar

Spec == Init /\ [][Next]_vars

-----------------------------------------------------------------------------
(* Direct calls of get_analysis_description *)

Differences ==
    {PyInt(n) : n \in (0 - MaxDelta)..MaxDelta} \cup {PyStr("N/A"), PyStr("Error")}

InitCall ==
    /\ sheet = [columns |-> <<>>, rows |-> <<>>]
    /\ df = EmptyDataFrame
    /\ data_loaded_successfully = FALSE
    /\ selected_patient_label = None
    /\ fecha_evolutiva = None
    /\ fecha_comparativa = None
    /\ button = FALSE
    /\ out = ScriptRun(df, FALSE, None, None, None, FALSE)
    /\ difference \in {Some(d) : d \in Differences}
    /\ description = None
    /\ matching = {}

Call ==
    /\ description = None
    /\ description' = Some(get_analysis_description(Get(difference)))
    /\ matching' = IF Get(difference).t = "int"
                   THEN BucketsMatching(float_tenths(Get(difference).i))
                   ELSE {}
    /\ UNCHANGED <<difference, uiVars>>

NextCall == Call

SpecCall == InitCall /\ [][NextCall]_vars

-----------------------------------------------------------------------------
(* Properties *)

Entries == {out.resultados[k] : k \in DOMAIN out.resultados}
Labels == [k \in DOMAIN out.resultados |-> out.resultados[k].Etiqueta]
Pos(col) == CHOOSE k \in DOMAIN orden_columnas_deseado : orden_columnas_deseado[k] = col
AnalysisRan == out.record_comp # None
ValComp(e) == Get(out.record_comp).scores[e.Etiqueta]
ValEvol(e) == Get(out.record_evol).scores[e.Etiqueta]

\* C1: when the baseline period equals the follow-up period the comparison is
\* rejected as a whole: pressing the button yields the warning and nothing else
\* (no records picked, no diff entry, no table), and no run with equal periods
\* shows a table.
C1_IdenticalPeriodsRejected ==
    /\ (button /\ fecha_comparativa = fecha_evolutiva) =>
        /\ "warning" \in out.rendered
        /\ out.rendered \cap {"subheader", "write", "table"} = {}
        /\ out.record_comp = None /\ out.record_evol = None
    /\ fecha_comparativa = fecha_evolutiva =>
        out.resultados = <<>> /\ out.table = <<>>

C1_Witness ==
    /\ button
    /\ fecha_comparativa = fecha_evolutiva
    /\ "warning" \in out.rendered
    /\ Len(out.available_periods) >= 2

\* C2: a diff report is never produced from two records whose 'Identificación'
\* values differ: the records of the run all carry the selected id, and the two
\* compared records are rows of the dataset with the same id.
C2_SamePatientOnly ==
    /\ \A r \in Range(out.patient_records) :
        out.selected_id_str # None /\ r.Identificacion = Get(out.selected_id_str)
    /\ AnalysisRan =>
        /\ out.record_evol # None
        /\ Get(out.record_comp) \in Range(df.rows)
        /\ Get(out.record_evol) \in Range(df.rows)
        /\ Get(out.record_comp).Identificacion = Get(out.record_evol).Identificacion

C2_Witness ==
    /\ out.table # <<>>
    /\ \E r \in Range(df.rows) :
        r.Identificacion # Get(out.record_comp).Identificacion

BucketDescriptions == {BUCKETS[k].desc : k \in DOMAIN BUCKETS}
Called == description # None /\ Get(difference).t = "int"

\* C3: for every integer d the function returns one of the fixed descriptions;
\* every d in 1..100 satisfies exactly one bucket condition, that of the bucket
\* 5(k-1)+1 .. 5k, and gets its string (22 gets the 21-25.9 string); no d <= 0
\* or d > 100 satisfies a bucket condition or gets a bucket string, and d > 100
\* gets the fallback.
C3_BucketsPartition ==
    Called =>
        LET d == Get(difference).i
            desc == Get(description)
        IN /\ desc \in BucketDescriptions
                       \cup {DESC_NA, DESC_UNPARSED, DESC_NEGATIVE, DESC_ZERO, DESC_FALLBACK}
           /\ Cardinality(BucketDescriptions) = Len(BUCKETS)
           /\ (1 <= d /\ d <= 100) =>
                /\ matching = {((d - 1) \div 5) + 1}
                /\ desc = BUCKETS[((d - 1) \div 5) + 1].desc
           /\ (d <= 0 \/ d > 100) =>
                /\ matching = {}
                /\ desc \notin BucketDescriptions
           /\ d > 100 => desc = DESC_FALLBACK
           /\ d = 22 => desc = "Mejora establecida, aunque todavía moderada."

C3_Witness ==
    /\ Called
    /\ Get(difference).i = 22
    /\ matching = {5}
    /\ Get(description) = BUCKETS[5].desc

\* C4: every negative delta is classified differently from delta 0 (a
\* regression description of its own).
C4_RegressionDistinct ==
    (Called /\ Get(difference).i < 0) =>
        Get(description) # get_analysis_description(PyInt(0))

\* C5: an entry's delta is "N/A" exactly when the baseline value or the
\* follow-up value is missing, its classification is then the 'not applicable'
\* description, and with both values present the delta is an integer.
C5_NotEvaluated ==
    \A e \in Entries :
        /\ (isna(ValComp(e)) \/ isna(ValEvol(e))) <=> e.diferencia = PyStr("N/A")
        /\ e.diferencia = PyStr("N/A") => e.analisis = DESC_NA
        /\ (notna(ValComp(e)) /\ notna(ValEvol(e))) => e.diferencia.t = "int"

C5_Witness ==
    /\ \E e \in Entries :
        /\ notna(ValComp(e)) /\ isna(ValEvol(e))
        /\ e.diferencia = PyStr("N/A") /\ e.analisis = DESC_NA
    /\ \E e \in Entries : e.diferencia.t = "int"

\* C6: with both values present, the delta is follow-up minus baseline, the
\* displayed values are the two records' values, and the classification is
\* get_analysis_description of the delta.
C6_ExactDelta ==
    \A e \in Entries :
        (notna(ValComp(e)) /\ notna(ValEvol(e))) =>
            /\ e.diferencia = PyInt(ValEvol(e).i - ValComp(e).i)
            /\ e.display_comp = ValComp(e)
            /\ e.display_evol = ValEvol(e)
            /\ e.analisis = get_analysis_description(e.diferencia)

C6_Witness ==
    \E e \in Entries :
        /\ ValComp(e) = PyInt(40) /\ ValEvol(e) = PyInt(62)
        /\ e.diferencia = PyInt(22)
        /\ e.analisis = "Mejora establecida, aunque todavía moderada."

\* C7: the entry labels are the labels of orden_columnas_deseado that are columns
\* of the dataset, each once, in the order of orden_columnas_deseado, whatever
\* the order of the dataset's columns; no other column yields an entry.
C7_CanonicalOrder ==
    AnalysisRan =>
        /\ Range(Labels) = Range(orden_columnas_deseado) \cap Range(df.columns)
        /\ \A i, j \in DOMAIN Labels : i < j => Pos(Labels[i]) < Pos(Labels[j])
        /\ out.table = out.resultados

C7_Witness ==
    /\ df.columns = <<TREPA, OBSERVACIONES, SALTO>>
    /\ Labels = <<SALTO, TREPA>>
    /\ "table" \in out.rendered

PatientPairs ==
    {[Nombre |-> r.Nombre, Identificacion |-> r.Identificacion] : r \in Range(df.rows)}
PatientIds == {r.Identificacion : r \in Range(df.rows)}
OptionsOf(id) ==
    {k \in DOMAIN out.patient_options :
        \E q \in PatientPairs :
            q.Identificacion = id
            /\ out.patient_options[k] = display_label(q.Nombre, q.Identificacion)}

\* C8 as claimed: every patient id of the dataset appears in exactly one option,
\* and the options are in ascending order of the label.
C8_OneOptionPerId ==
    data_loaded_successfully =>
        /\ \A id \in PatientIds : Cardinality(OptionsOf(id)) = 1
        /\ \A i, j \in DOMAIN out.patient_options :
            i < j => StrLess(out.patient_options[i], out.patient_options[j])

\* C8 amended: the options are the display labels of the distinct (name, id)
\* pairs of the dataset, one option per pair, in ascending order of the label;
\* every patient id has at least one option.
C8_OneOptionPerPair ==
    data_loaded_successfully =>
        /\ Range(out.patient_options) =
             {display_label(q.Nombre, q.Identificacion) : q \in PatientPairs}
        /\ Len(out.patient_options) = Cardinality(PatientPairs)
        /\ \A id \in PatientIds : Cardinality(OptionsOf(id)) >= 1
        /\ \A i, j \in DOMAIN out.patient_options :
            i < j => ~StrLess(out.patient_options[j], out.patient_options[i])

C8_Witness ==
    /\ data_loaded_successfully
    /\ Len(out.patient_options) = 3
    /\ \E id \in PatientIds : Cardinality(OptionsOf(id)) = 2
    /\ Len(df.rows) = 3
    /\ display_label(df.rows[1].Nombre, df.rows[1].Identificacion) = out.patient_options[3]

C10_LabelRoundTrip ==
    selected_patient_label # None =>
        \A q \in PatientPairs :
            Get(selected_patient_label) = display_label(q.Nombre, q.Identificacion) =>
                /\ out.selected_id_str = Some(q.Identificacion)
                /\ "header2" \in out.rendered
                /\ out.patient_records =
                     SelectSeq(df.rows, LAMBDA r : r.Identificacion = q.Identificacion)

====
